---- MODULE Spec2Model ----
(***************************************************************************)
(* Model of the MCU-ALTEA 150 course automation: the Rise360Client         *)
(* (src/rise360_client.py), the ContentValidator (src/validator.py) and    *)
(* the MCUAltea150CourseCreator orchestrator (src/course_creator.py).      *)
(*                                                                         *)
(* Two specifications share the client operators:                          *)
(*   Spec        one pipeline run (run() and its five phases)              *)
(*   SpecClient  one Rise360Client driven by arbitrary method calls under   *)
(*               an arbitrary wall clock (time.time() is not monotonic)    *)
(***************************************************************************)
EXTENDS Integers, Sequences, FiniteSets, TLC

VARIABLES
    pc,            \* position of the orchestrator: "setup" .. "done", or "client"
    ip,            \* position inside _phase_insert / _insert_theme_content
    client,        \* the Rise360Client instance (fields of __init__)
    now,           \* the wall clock read by time.time()
    course_built,  \* self.course is not None
    gen,           \* the content the generator produced (one profile per course)
    val,           \* summary returned by validate_course (or NoSummary)
    rid,           \* rise_360_id stored on the course tree, per resource
    remote,        \* per resource: requests issued, outcome and returned id
    phases,        \* the phases started so far, in order, with their results
    run_result,    \* return value of run(): "none" until it returns
    failures,      \* number of failed remote calls injected so far
    window_start,  \* when the current rate-limit window began (observation)
    issued,        \* remote requests issued since the counter was last reset
    last           \* observation of the last client method call

vars == <<pc, ip, client, now, course_built, gen, val, rid, remote, phases,
          run_result, failures, window_start, issued, last>>

----------------------------------------------------------------------------
(* Bounds of the model                                                      *)

\* configured ceiling settings.RATE_LIMIT_REQUESTS_PER_MINUTE (default 100,
\* read from the environment); checked for a small ceiling
RATE_LIMIT_REQUESTS_PER_MINUTE == 3

\* at most this many remote calls of one production run fail
MaxFailures == 1

\* the wall clock stays in MinClock..MaxClock (seconds since the epoch; the
\* epoch itself lies far more than a minute in the past)
MinClock == 100
MaxClock == 250

\* clock movement between two client calls of SpecClient (a wall clock can be
\* set back) and duration of one call in a pipeline run
ClockSteps == {0 - 30, 0, 30, 90}
CallSeconds == 1

----------------------------------------------------------------------------
(* Program constants                                                        *)

UNITS_COUNT == 5
THEMES_PER_UNIT == 3
CONCEPTS_PER_THEME == 5
NARRATIVE_WORDS_TARGET == 1800
NARRATIVE_TOLERANCE == 50
ACADEMIC_WORDS_TARGET == 1900
ACADEMIC_TOLERANCE == 50
VIDEO_SCRIPT_WORDS_TARGET == 950
VIDEO_SCRIPT_TOLERANCE == 50
INFOGRAPHIC_WIDTH == 1200
INFOGRAPHIC_HEIGHT == 900
ACTIVITY_DURATION_MINUTES == 60
VIDEO_DURATION_MINUTES == 5
WindowSeconds == 60
BlocksPerTheme == 6

\* Python's None, and the rendering of a value inside an f-string
None == << >>
Str(x) == IF x = None THEN <<"None">> ELSE x

\* decimal rendering of the small numbers that end up inside identifiers
NumStr == [n \in 0..200 |-> ToString(n)]

Max(a, b) == IF a >= b THEN a ELSE b
Abs(a) == IF a >= 0 THEN a ELSE 0 - a

\* s contains p as a contiguous substring (strings are token sequences)
Contains(s, p) ==
    \E i \in 0..(Len(s) - Len(p)) : SubSeq(s, i + 1, i + Len(p)) = p

----------------------------------------------------------------------------
(* The course tree built from the fixed catalogue                           *)

Units == 1..UNITS_COUNT
Themes == 1..THEMES_PER_UNIT
Orders == 1..BlocksPerTheme

\* the resources of the course tree, numbered in the order of the walk of
\* the catalogue: the course, its units, their lessons, their blocks
NumLessons == UNITS_COUNT * THEMES_PER_UNIT
LessonIndex(u, t) == (u - 1) * THEMES_PER_UNIT + t
CourseRes == 1
UnitRes(u) == 1 + u
LessonRes(u, t) == 1 + UNITS_COUNT + LessonIndex(u, t)
BlockRes(u, t, k) ==
    1 + UNITS_COUNT + NumLessons + (LessonIndex(u, t) - 1) * BlocksPerTheme + k

Resources == 1..(1 + UNITS_COUNT + NumLessons + NumLessons * BlocksPerTheme)

UnitResources == {UnitRes(u) : u \in Units}
LessonResources == {LessonRes(u, t) : u \in Units, t \in Themes}
BlockResources == {BlockRes(u, t, k) : u \in Units, t \in Themes, k \in Orders}

\* the six blocks of a theme in the order _insert_theme_content inserts them
BlockKind(k) ==
    CASE k = 1 -> "narrative"
      [] k = 2 -> "concepts"
      [] k = 3 -> "academic_text"
      [] k = 4 -> "infographic"
      [] k = 5 -> "video_script"
      [] OTHER -> "activity"

\* the client method _insert_theme_content uses for each block
BlockMethod(k) ==
    CASE k \in {1, 2, 3} -> "insert_text_block"
      [] k = 4 -> "insert_image_block"
      [] k = 5 -> "insert_video_block"
      [] OTHER -> "insert_interaction_block"

----------------------------------------------------------------------------
(* Rise360Client                                                            *)

Modes == {"simulation", "production"}

\* outcome of the single remote request of a production call: the response
\* carries an id, the response carries no id (json().get("id") is None), or
\* the request raises (HTTP error status, timeout, connection error)
Outcomes == {"id", "null", "error"}

\* Rise360Client.__init__
NewClient(mode) ==
    [mode |-> mode, auth_token |-> None, course_id |-> None,
     request_count |-> 0, rate_limit_reset |-> 0]

\* the counter as it would be checked if the ceiling itself were allowed
_check_rate_limit_late(c, current_time) ==
    IF c.request_count > RATE_LIMIT_REQUESTS_PER_MINUTE
    THEN [client |-> [c EXCEPT !.request_count = 0,
                               !.rate_limit_reset = current_time],
          sleep |-> Max(0, WindowSeconds - (current_time - c.rate_limit_reset)),
          hit |-> TRUE]
    ELSE [client |-> c, sleep |-> 0, hit |-> FALSE]

\* Rise360Client._check_rate_limit, called at current_time
_check_rate_limit(c, current_time) ==
    IF c.request_count >= RATE_LIMIT_REQUESTS_PER_MINUTE
    THEN [client |-> [c EXCEPT !.request_count = 0,
                               !.rate_limit_reset = current_time],
          sleep |-> Max(0, WindowSeconds - (current_time - c.rate_limit_reset)),
          hit |-> TRUE]
    ELSE [client |-> c, sleep |-> 0, hit |-> FALSE]

\* the production branch as it would be if a failed request were retried
production_request_retrying(c, current_time, outcome, id) ==
    LET rl == _check_rate_limit(c, current_time)
    IN  [client |-> IF outcome = "error" THEN rl.client
                    ELSE [rl.client EXCEPT !.request_count = @ + 1],
         result |-> IF outcome = "id" THEN id ELSE None,
         sleep |-> rl.sleep, hit |-> rl.hit,
         net |-> IF outcome = "error" THEN 2 ELSE 1,
         failed |-> outcome = "error", raised |-> FALSE]

\* the branch as it would be without its "except Exception" clause
production_request_propagating(c, current_time, outcome, id) ==
    LET rl == _check_rate_limit(c, current_time)
    IN  [client |-> IF outcome = "error" THEN rl.client
                    ELSE [rl.client EXCEPT !.request_count = @ + 1],
         result |-> IF outcome = "id" THEN id ELSE None,
         sleep |-> rl.sleep, hit |-> rl.hit, net |-> 1,
         failed |-> outcome = "error", raised |-> outcome = "error"]

\* the production branch every creation/insertion method repeats:
\* _check_rate_limit, one session.post, raise_for_status, json().get("id"),
\* request_count += 1, and "except Exception: return None"; `failed` says
\* that the request or the reading of its response raised, `raised` that the
\* method let the exception out
production_request(c, current_time, outcome, id) ==
    LET rl == _check_rate_limit(c, current_time)
    IN  [client |-> IF outcome = "error" THEN rl.client
                    ELSE [rl.client EXCEPT !.request_count = @ + 1],
         result |-> IF outcome = "id" THEN id ELSE None,
         sleep |-> rl.sleep, hit |-> rl.hit, net |-> 1,
         failed |-> outcome = "error", raised |-> FALSE]

\* the simulation branch: no rate limit, no request, a fabricated id
simulation_result(c, id) ==
    [client |-> c, result |-> id, sleep |-> 0, hit |-> FALSE, net |-> 0,
     failed |-> FALSE, raised |-> FALSE]

\* Rise360Client.authenticate; returns [client, ok]
authenticate(c, outcome, token) ==
    IF c.mode = "simulation"
    THEN [client |-> [c EXCEPT !.auth_token = <<"mock_token_simulation">>],
          ok |-> TRUE, net |-> 0, failed |-> FALSE]
    ELSE IF outcome = "error"
         THEN [client |-> c, ok |-> FALSE, net |-> 1, failed |-> TRUE]
         ELSE [client |-> [c EXCEPT !.auth_token =
                              IF outcome = "id" THEN token ELSE None],
               ok |-> TRUE, net |-> 1, failed |-> FALSE]

\* Rise360Client.create_course
create_course(c, current_time, outcome, id) ==
    IF c.mode = "simulation"
    THEN LET cid == <<"course_sim_", ToString(current_time)>>
         IN  simulation_result([c EXCEPT !.course_id = cid], cid)
    ELSE LET pr == production_request(c, current_time, outcome, id)
         IN  IF outcome = "error" THEN pr
             ELSE [pr EXCEPT !.client.course_id = pr.result]

\* Rise360Client.create_unit
create_unit(c, current_time, course_id, unit_number, outcome, id) ==
    IF c.mode = "simulation"
    THEN simulation_result(c,
             <<"unit_sim_">> \o Str(course_id) \o <<"_", NumStr[unit_number]>>)
    ELSE production_request(c, current_time, outcome, id)

\* Rise360Client.create_lesson
create_lesson(c, current_time, unit_id, theme_number, outcome, id) ==
    IF c.mode = "simulation"
    THEN simulation_result(c,
             <<"lesson_sim_">> \o Str(unit_id) \o <<"_", NumStr[theme_number]>>)
    ELSE production_request(c, current_time, outcome, id)

\* the method as it would be if the fabricated id left out the order
insert_text_block_unordered(c, current_time, lesson_id, order, outcome, id) ==
    IF c.mode = "simulation"
    THEN simulation_result(c, <<"block_sim_text_">> \o Str(lesson_id))
    ELSE production_request(c, current_time, outcome, id)

\* Rise360Client.insert_text_block
insert_text_block(c, current_time, lesson_id, order, outcome, id) ==
    IF c.mode = "simulation"
    THEN simulation_result(c,
             <<"block_sim_text_">> \o Str(lesson_id) \o <<"_", NumStr[order]>>)
    ELSE production_request(c, current_time, outcome, id)

\* Rise360Client.insert_image_block
insert_image_block(c, current_time, lesson_id, order, outcome, id) ==
    IF c.mode = "simulation"
    THEN simulation_result(c,
             <<"block_sim_image_">> \o Str(lesson_id) \o <<"_", NumStr[order]>>)
    ELSE production_request(c, current_time, outcome, id)

\* the method as it would be if the fabricated id left out the lesson
insert_video_block_orphan(c, current_time, lesson_id, order, outcome, id) ==
    IF c.mode = "simulation"
    THEN simulation_result(c, <<"block_sim_video_", NumStr[order]>>)
    ELSE production_request(c, current_time, outcome, id)

\* Rise360Client.insert_video_block
insert_video_block(c, current_time, lesson_id, order, outcome, id) ==
    IF c.mode = "simulation"
    THEN simulation_result(c,
             <<"block_sim_video_">> \o Str(lesson_id) \o <<"_", NumStr[order]>>)
    ELSE production_request(c, current_time, outcome, id)

\* Rise360Client.insert_interaction_block
insert_interaction_block(c, current_time, lesson_id, order, outcome, id) ==
    IF c.mode = "simulation"
    THEN simulation_result(c,
             <<"block_sim_interaction_">> \o Str(lesson_id) \o <<"_", NumStr[order]>>)
    ELSE production_request(c, current_time, outcome, id)

\* Rise360Client.publish_course; the result is the boolean it returns
publish_course(c, current_time, outcome) ==
    IF c.mode = "simulation"
    THEN simulation_result(c, <<"True">>)
    ELSE IF c.course_id = None
         THEN [client |-> c, result |-> <<"False">>, sleep |-> 0,
               hit |-> FALSE, net |-> 0, failed |-> FALSE, raised |-> FALSE]
         ELSE LET pr == production_request(c, current_time, outcome, None)
              IN  [pr EXCEPT !.result = IF outcome = "error"
                                        THEN <<"False">> ELSE <<"True">>]

\* dispatch on the method name
insert_block(method, c, current_time, lesson_id, order, outcome, id) ==
    CASE method = "insert_text_block" ->
             insert_text_block(c, current_time, lesson_id, order, outcome, id)
      [] method = "insert_image_block" ->
             insert_image_block(c, current_time, lesson_id, order, outcome, id)
      [] method = "insert_video_block" ->
             insert_video_block(c, current_time, lesson_id, order, outcome, id)
      [] OTHER ->
             insert_interaction_block(c, current_time, lesson_id, order, outcome, id)

\* the identifier the remote system hands out for resource r
ServerIds == [r \in Resources |-> <<"srv_", NumStr[r]>>]
ServerId(r) == ServerIds[r]

----------------------------------------------------------------------------
(* Observation of a client call                                             *)

NoWindow == 0 - 1
NoCall ==
    [method |-> "none", mode |-> "none", parent |-> None, result |-> None,
     hit |-> FALSE, sleep |-> 0, net |-> 0, failed |-> FALSE,
     raised |-> FALSE]

\* what a call did: its method, the parent id it was given, its result,
\* whether it found the ceiling reached, how long it slept, how many remote
\* requests it issued, whether its request failed and whether it let an
\* exception out
Observe(c, method, parent, res) ==
    [method |-> method, mode |-> c.mode, parent |-> parent,
     result |-> res.result, hit |-> res.hit, sleep |-> res.sleep,
     net |-> res.net, failed |-> res.failed, raised |-> res.raised]

\* the window begins at the first counted request and again at every reset
WindowAfter(c, ws, current_time, res) ==
    IF res.hit THEN current_time
    ELSE IF ws = NoWindow /\ res.client.request_count > c.request_count
         THEN current_time
         ELSE ws

\* the requests issued since the last reset of request_count: a call that
\* resets the counter issues its own request after the reset; the count is
\* followed up to one past the ceiling
IssuedAfter(n, res) ==
    LET m == (IF res.hit THEN 0 ELSE n) + res.net
    IN  IF m > RATE_LIMIT_REQUESTS_PER_MINUTE + 1
        THEN RATE_LIMIT_REQUESTS_PER_MINUTE + 1 ELSE m

\* the client, the clock and the observations, threaded through the calls
World == [client |-> client, now |-> now, window_start |-> window_start,
          issued |-> issued, last |-> last]

\* the world after a call made at w.now that returned res and, together with
\* what followed it, took dt seconds on top of its sleep
WorldAfter(w, method, parent, res, dt) ==
    [client |-> res.client,
     now |-> w.now + res.sleep + dt,
     window_start |-> WindowAfter(w.client, w.window_start, w.now, res),
     issued |-> IssuedAfter(w.issued, res),
     last |-> Observe(w.client, method, parent, res)]

SetWorld(w) ==
    /\ client' = w.client
    /\ now' = w.now
    /\ window_start' = w.window_start
    /\ issued' = w.issued
    /\ last' = w.last

----------------------------------------------------------------------------
(* Content elements and ContentValidator                                    *)

\* A text (content) is the sequence of its whitespace-delimited tokens, run
\* length encoded: [tok |-> kind of token, n |-> how many in a row].
\*   "word"         a plain word
\*   "tag"          a markup tag that stands between whitespace, "<p>"
\*   "#", "##"      markdown heading marks
\*   "[NARRACIÓN]", "[VISUAL]"   the markers of a video script
\* A field that holds Python's None is named in the element's `none` set; a
\* string field is the sequence of its characters and a list field the
\* sequence of its items.
Text(tok, n) == <<[tok |-> tok, n |-> n]>>

RECURSIVE SumRuns(_)
SumRuns(text) == IF text = << >> THEN 0 ELSE text[1].n + SumRuns(Tail(text))

\* len(text.split())
split_len(text) == SumRuns(text)

NotTag(run) == run.tok # "tag"

\* re.sub(r'<[^>]+>', '', text)
strip_tags(text) == SelectSeq(text, NotTag)

\* ContentGenerator.count_words
count_words(text) == split_len(strip_tags(text))

\* sub in text, for the substrings the validators look for
in_text(sub, text) ==
    \E i \in 1..Len(text) :
        /\ text[i].n > 0
        /\ IF sub = "#" THEN text[i].tok \in {"#", "##"} ELSE text[i].tok = sub

IsNone(el, f) == f \in el.none
\* "not el.f" for a number, and for a string or a list
FalsyInt(el, f) == IsNone(el, f) \/ el[f] = 0
FalsySeq(el, f) == IsNone(el, f) \/ el[f] = << >>

\* decimal rendering inside a message
Num(n) == IF n \in DOMAIN NumStr THEN NumStr[n] ELSE ToString(n)
\* f"{el.f}" for a number field
FmtInt(el, f) == IF IsNone(el, f) THEN "None" ELSE Num(el[f])

\* the result as it would be if a warning made the element invalid
Result_warned(errors, warnings, element) ==
    [raised |-> FALSE, is_valid |-> (Len(errors) = 0 /\ Len(warnings) = 0),
     errors |-> errors, warnings |-> warnings, element |-> element]

\* what a validator returns; raised: it ended with an exception instead.
\* element is the element as the validator leaves it (words may be set).
Result(errors, warnings, element) ==
    [raised |-> FALSE, is_valid |-> (Len(errors) = 0), errors |-> errors,
     warnings |-> warnings, element |-> element]
Raised(element) ==
    [raised |-> TRUE, is_valid |-> FALSE, errors |-> << >>,
     warnings |-> << >>, element |-> element]

If(cond, msg) == IF cond THEN <<msg>> ELSE << >>

\* the statement as it would be if it also stored the stripped content
lazy_words_rewriting(el) ==
    IF FalsyInt(el, "words")
    THEN [el EXCEPT !.words = split_len(el.content), !.none = @ \ {"words"},
                    !.content = strip_tags(el.content)]
    ELSE el

\* "if not x.words: x.words = len(x.content.split())"
lazy_words(el) ==
    IF FalsyInt(el, "words")
    THEN [el EXCEPT !.words = split_len(el.content), !.none = @ \ {"words"}]
    ELSE el

\* the word count as it would be checked if the tolerance itself were out
out_of_tolerance_exclusive(words, target, tolerance) ==
    Abs(words - target) >= tolerance

\* "word_diff = abs(x.words - target); if word_diff > tolerance"
out_of_tolerance(words, target, tolerance) ==
    Abs(words - target) > tolerance

\* the word-count message of narrative, academic text and video script
word_count_error(label, theme_code, words, target, tolerance) ==
    <<label>> \o theme_code \o
    <<": Word count ", Num(words), " exceeds tolerance. ", "Target: ",
      Num(target), " ±", Num(tolerance)>>

\* ContentValidator.validate_narrative
validate_narrative(narrative, theme_code) ==
    IF FalsyInt(narrative, "words") /\ IsNone(narrative, "content")
    THEN Raised(narrative)
    ELSE
    LET n == lazy_words(narrative)
        errors ==
            If(out_of_tolerance(n.words, NARRATIVE_WORDS_TARGET,
                                NARRATIVE_TOLERANCE),
               word_count_error("Narrative ", theme_code, n.words,
                                NARRATIVE_WORDS_TARGET, NARRATIVE_TOLERANCE))
            \o If(FalsySeq(n, "character") \/ Len(n.character) < 3,
                  <<"Narrative ">> \o theme_code \o
                  <<": Missing or invalid character name">>)
            \o If(Len(n.concepts_integrated) < 3,
                  <<"Narrative ">> \o theme_code \o
                  <<": Should integrate 3-5 concepts, got ",
                    Num(Len(n.concepts_integrated))>>)
        warnings ==
            If(IsNone(n, "structure") \/ n.structure # "3-act",
               <<"Narrative ">> \o theme_code \o
               <<": Unexpected structure format">>)
    IN  IF IsNone(n, "concepts_integrated") THEN Raised(n)
        ELSE Result(errors, warnings, n)

\* the count check as it would be if only missing items were reported
count_differs_below(actual, expected) == actual < expected

\* "if len(course.units) != settings.UNITS_COUNT", and the like for themes
\* and concepts
count_differs(actual, expected) == actual # expected

\* the two messages of one concept of validate_concepts
concept_errors(concept, i, theme_code) ==
    If(FalsySeq(concept, "term") \/ Len(concept.term) < 3,
       <<"Concepts ">> \o theme_code \o
       <<": Invalid term at position ", Num(i)>>)
    \o If(FalsySeq(concept, "definition") \/ Len(concept.definition) < 10,
          <<"Concepts ">> \o theme_code \o <<": Invalid definition for '">>
          \o (IF IsNone(concept, "term") THEN <<"None">> ELSE concept.term)
          \o <<"'">>)

RECURSIVE concepts_errors(_, _, _)
concepts_errors(concepts, i, theme_code) ==
    IF i >= Len(concepts) THEN << >>
    ELSE concept_errors(concepts[i + 1], i, theme_code)
         \o concepts_errors(concepts, i + 1, theme_code)

\* ContentValidator.validate_concepts; theme.concepts is the field `concepts`
\* of the theme it is called for
validate_concepts(theme, theme_code) ==
    IF IsNone(theme, "concepts") THEN Raised(theme.concepts)
    ELSE
    LET concepts == theme.concepts
        errors ==
            If(count_differs(Len(concepts), CONCEPTS_PER_THEME),
               <<"Concepts ">> \o theme_code \o
               <<": Expected ", Num(CONCEPTS_PER_THEME), ", got ",
                 Num(Len(concepts))>>)
            \o concepts_errors(concepts, 0, theme_code)
    IN  Result(errors, << >>, concepts)

\* ContentValidator.validate_academic_text
validate_academic_text(text, theme_code) ==
    IF IsNone(text, "content") \/ IsNone(text, "concepts_count")
    THEN Raised(IF IsNone(text, "content") /\ FalsyInt(text, "words")
                THEN text ELSE lazy_words(text))
    ELSE
    LET t == lazy_words(text)
        errors ==
            If(out_of_tolerance(t.words, ACADEMIC_WORDS_TARGET,
                                ACADEMIC_TOLERANCE),
               word_count_error("Academic text ", theme_code, t.words,
                                ACADEMIC_WORDS_TARGET, ACADEMIC_TOLERANCE))
            \o If(t.concepts_count < 4,
                  <<"Academic text ">> \o theme_code \o
                  <<": Should have 4-5 concepts, got ", Num(t.concepts_count)>>)
        warnings ==
            If(FalsySeq(t, "references") \/ Len(t.references) < 3,
               <<"Academic text ">> \o theme_code \o
               <<": Few references (recommended 3+)">>)
            \o If(~in_text("##", t.content) /\ ~in_text("#", t.content),
                  <<"Academic text ">> \o theme_code \o
                  <<": No markdown headings found">>)
    IN  Result(errors, warnings, t)

\* ContentValidator.validate_infographic
validate_infographic(infographic, theme_code) ==
    IF \/ IsNone(infographic, "width_px") \/ IsNone(infographic, "height_px")
       \/ IsNone(infographic, "sections_count")
    THEN Raised(infographic)
    ELSE
    LET g == infographic
        errors ==
            If(g.width_px < INFOGRAPHIC_WIDTH,
               <<"Infographic ">> \o theme_code \o
               <<": Width ", Num(g.width_px), "px is less than minimum ",
                 Num(INFOGRAPHIC_WIDTH), "px">>)
            \o If(g.height_px < INFOGRAPHIC_HEIGHT,
                  <<"Infographic ">> \o theme_code \o
                  <<": Height ", Num(g.height_px), "px is less than minimum ",
                    Num(INFOGRAPHIC_HEIGHT), "px">>)
            \o If(g.sections_count < 4 \/ g.sections_count > 6,
                  <<"Infographic ">> \o theme_code \o
                  <<": Sections count ", Num(g.sections_count),
                    " out of range (4-6)">>)
        warnings ==
            If(FalsySeq(g, "elements") \/ Len(g.elements) < g.sections_count,
               <<"Infographic ">> \o theme_code \o
               <<": Elements list may be incomplete">>)
    IN  Result(errors, warnings, g)

\* the check as it would be if only a script with neither marker failed it
markers_missing_both(content) ==
    ~in_text("[NARRACIÓN]", content) /\ ~in_text("[VISUAL]", content)

\* "[NARRACIÓN]" not in content or "[VISUAL]" not in content
markers_missing(content) ==
    ~in_text("[NARRACIÓN]", content) \/ ~in_text("[VISUAL]", content)

\* ContentValidator.validate_video_script
validate_video_script(video, theme_code) ==
    IF \/ IsNone(video, "content") \/ IsNone(video, "concepts_count")
       \/ IsNone(video, "examples_count") \/ IsNone(video, "visuals_count")
    THEN Raised(IF IsNone(video, "content") /\ FalsyInt(video, "words")
                THEN video ELSE lazy_words(video))
    ELSE
    LET v == lazy_words(video)
        errors ==
            If(out_of_tolerance(v.words, VIDEO_SCRIPT_WORDS_TARGET,
                                VIDEO_SCRIPT_TOLERANCE),
               word_count_error("Video script ", theme_code, v.words,
                                VIDEO_SCRIPT_WORDS_TARGET,
                                VIDEO_SCRIPT_TOLERANCE))
            \o If(v.concepts_count > 3,
                  <<"Video script ">> \o theme_code \o
                  <<": Too many concepts (", Num(v.concepts_count),
                    "), max is 3">>)
            \o If(v.visuals_count < 2,
                  <<"Video script ">> \o theme_code \o
                  <<": Too few visuals (", Num(v.visuals_count),
                    "), minimum is 2">>)
            \o If(markers_missing(v.content),
                  <<"Video script ">> \o theme_code \o
                  <<": Missing required [NARRACIÓN] or [VISUAL] markers">>)
        warnings ==
            If(IsNone(v, "duration_minutes")
                  \/ v.duration_minutes # VIDEO_DURATION_MINUTES,
               <<"Video script ">> \o theme_code \o
               <<": Duration ", FmtInt(v, "duration_minutes"), "m, expected ",
                 Num(VIDEO_DURATION_MINUTES), "m">>)
            \o If(v.examples_count < 2,
                  <<"Video script ">> \o theme_code \o
                  <<": Few examples (", Num(v.examples_count),
                    "), recommended 2-3">>)
    IN  Result(errors, warnings, v)

\* ContentValidator.validate_activity
validate_activity(activity, theme_code) ==
    IF \/ IsNone(activity, "components") \/ IsNone(activity, "rubric_criteria")
       \/ IsNone(activity, "deliverables")
       \/ IsNone(activity, "success_criteria")
    THEN Raised(activity)
    ELSE
    LET a == activity
        errors ==
            If(IsNone(a, "duration_minutes")
                  \/ a.duration_minutes # ACTIVITY_DURATION_MINUTES,
               <<"Activity ">> \o theme_code \o
               <<": Duration ", FmtInt(a, "duration_minutes"), "m, expected ",
                 Num(ACTIVITY_DURATION_MINUTES), "m">>)
            \o If(a.rubric_criteria < 4,
                  <<"Activity ">> \o theme_code \o
                  <<": Rubric has ", Num(a.rubric_criteria),
                    " criteria, minimum is 4">>)
            \o If(Len(a.deliverables) < 1,
                  <<"Activity ">> \o theme_code \o
                  <<": No deliverables specified">>)
        warnings ==
            If(Len(a.components) < 3,
               <<"Activity ">> \o theme_code \o
               <<": Few components (", Num(Len(a.components)),
                 "), recommended 3-4">>)
            \o If(Len(a.success_criteria) < 3,
                  <<"Activity ">> \o theme_code \o
                  <<": Few success criteria (", Num(Len(a.success_criteria)),
                    "), recommended 3+">>)
    IN  Result(errors, warnings, a)

\* the `issues` dictionary of validate_theme, validate_unit, validate_course;
\* raised: the walk ended with an exception; walked: the children as the
\* walk left them
Issues(total) ==
    [raised |-> FALSE, errors |-> << >>, warnings |-> << >>,
     total_elements |-> total, valid_elements |-> 0, invalid_elements |-> 0,
     walked |-> << >>]

\* validate_theme, for one element result: count it, keep its errors
count_element(issues, result) ==
    IF result.raised
    THEN [issues EXCEPT !.raised = TRUE,
                        !.walked = Append(@, result.element)]
    ELSE IF result.is_valid
    THEN [issues EXCEPT !.valid_elements = @ + 1,
                        !.walked = Append(@, result.element)]
    ELSE [issues EXCEPT !.invalid_elements = @ + 1,
                        !.errors = @ \o result.errors,
                        !.walked = Append(@, result.element)]

\* the six validators in the order validate_theme calls them
ElementKinds == <<"narrative", "concepts", "academic_text", "infographic",
                  "video_script", "activity">>

validate_element(theme, k) ==
    CASE k = 1 -> validate_narrative(theme.narrative, theme.code)
      [] k = 2 -> validate_concepts(theme, theme.code)
      [] k = 3 -> validate_academic_text(theme.academic_text, theme.code)
      [] k = 4 -> validate_infographic(theme.infographic, theme.code)
      [] k = 5 -> validate_video_script(theme.video_script, theme.code)
      [] k = 6 -> validate_activity(theme.activity, theme.code)

\* the sequence of calls as it would be if an invalid element ended it
RECURSIVE theme_elements_short(_, _, _)
theme_elements_short(theme, k, issues) ==
    IF k > Len(ElementKinds) \/ issues.raised \/ issues.invalid_elements > 0
    THEN issues
    ELSE theme_elements_short(theme, k + 1,
                              count_element(issues, validate_element(theme, k)))

RECURSIVE theme_elements(_, _, _)
theme_elements(theme, k, issues) ==
    IF k > Len(ElementKinds) \/ issues.raised THEN issues
    ELSE theme_elements(theme, k + 1,
                        count_element(issues, validate_element(theme, k)))

\* the theme with the elements the validators have gone through
theme_after(theme, walked) ==
    [f \in DOMAIN theme |->
        IF \E k \in 1..Len(walked) : ElementKinds[k] = f
        THEN walked[CHOOSE k \in 1..Len(walked) : ElementKinds[k] = f]
        ELSE theme[f]]

\* ContentValidator.validate_theme
validate_theme(theme) ==
    LET issues == theme_elements(theme, 1, Issues(5))
    IN  [issues EXCEPT !.walked = theme_after(theme, issues.walked)]

\* validate_unit and validate_course, for the result of one child
add_child(issues, result) ==
    IF result.raised
    THEN [issues EXCEPT !.raised = TRUE,
                        !.walked = Append(@, result.walked)]
    ELSE [issues EXCEPT
            !.total_elements = @ + result.total_elements,
            !.valid_elements = @ + result.valid_elements,
            !.invalid_elements = @ + result.invalid_elements,
            !.errors = @ \o result.errors,
            !.warnings = @ \o result.warnings,
            !.walked = Append(@, result.walked)]

\* the children after a walk that may have stopped early
children_after(children, walked) ==
    walked \o SubSeq(children, Len(walked) + 1, Len(children))

RECURSIVE unit_themes(_, _, _)
unit_themes(themes, i, issues) ==
    IF i > Len(themes) \/ issues.raised THEN issues
    ELSE unit_themes(themes, i + 1,
                     add_child(issues, validate_theme(themes[i])))

\* ContentValidator.validate_unit
validate_unit(unit) ==
    LET start == [Issues(0) EXCEPT !.errors =
                    If(count_differs(Len(unit.themes), THEMES_PER_UNIT),
                       <<"Unit ", Num(unit.unit_number), ": Expected ",
                         Num(THEMES_PER_UNIT), " themes, got ",
                         Num(Len(unit.themes))>>)]
        issues == unit_themes(unit.themes, 1, start)
        after == [unit EXCEPT
                    !.themes = children_after(unit.themes, issues.walked)]
    IN  IF issues.raised THEN [issues EXCEPT !.walked = after]
        ELSE [issues EXCEPT
                !.warnings = @
                    \o If(FalsySeq(unit, "synthesis"),
                          <<"Unit ", Num(unit.unit_number),
                            ": Missing synthesis (300 words)">>)
                    \o If(FalsySeq(unit, "integrated_project"),
                          <<"Unit ", Num(unit.unit_number),
                            ": Missing integrated project (800-1000 words)">>),
                !.walked = after]

\* the walk as it would be if an error recorded so far ended it
RECURSIVE course_units_abort(_, _, _)
course_units_abort(units, i, issues) ==
    IF i > Len(units) \/ issues.raised \/ issues.errors # << >> THEN issues
    ELSE course_units_abort(units, i + 1,
                            add_child(issues, validate_unit(units[i])))

RECURSIVE course_units(_, _, _)
course_units(units, i, issues) ==
    IF i > Len(units) \/ issues.raised THEN issues
    ELSE course_units(units, i + 1,
                      add_child(issues, validate_unit(units[i])))

\* ContentValidator.validate_course
validate_course(course) ==
    LET start == [Issues(0) EXCEPT !.errors =
                    If(count_differs(Len(course.units), UNITS_COUNT),
                       <<"Expected ", Num(UNITS_COUNT), " units, got ",
                         Num(Len(course.units))>>)]
        issues == course_units(course.units, 1, start)
    IN  [issues EXCEPT !.walked =
            [course EXCEPT
                !.units = children_after(course.units, issues.walked)]]

----------------------------------------------------------------------------
(* The elements ContentGenerator hands to the model constructors           *)

Chars(n) == [i \in 1..n |-> "x"]
Items(n) == [i \in 1..n |-> "item"]

AConcept == [term |-> Chars(8), definition |-> Chars(40), none |-> {}]

\* the elements of one theme, course-wide.  The fields the pydantic models
\* constrain (AcademicText.concepts_count in 4..5, VideoScript.concepts_count
\* <= 3, Infographic.sections_count in 4..6, five concepts per theme) are
\* inside their ranges in every built tree, and words is what count_words
\* returned for the content.
ConformantProfile ==
    [code |-> << >>, none |-> {},
     narrative |->
        [words |-> 1800, content |-> Text("word", 1800), structure |-> "3-act",
         character |-> Chars(14), concepts_integrated |-> Items(5),
         none |-> {}],
     concepts |-> [i \in 1..5 |-> AConcept],
     academic_text |->
        [words |-> 1950, content |-> Text("##", 1) \o Text("word", 1949),
         concepts_count |-> 5, references |-> Items(3), none |-> {}],
     infographic |->
        [width_px |-> 1200, height_px |-> 900, sections_count |-> 5,
         elements |-> Items(5), none |-> {}],
     video_script |->
        [words |-> 950,
         content |-> Text("[NARRACIÓN]", 1) \o Text("word", 948)
                     \o Text("[VISUAL]", 1),
         duration_minutes |-> 5, concepts_count |-> 3, examples_count |-> 2,
         visuals_count |-> 3, sections |-> << >>, none |-> {}],
     activity |->
        [duration_minutes |-> 60, components |-> Items(4),
         rubric_criteria |-> 5, deliverables |-> Items(3),
         success_criteria |-> Items(4), none |-> {}]]

\* an API answer that misses the specification in several places
DeviantProfile ==
    [ConformantProfile EXCEPT
        !.narrative.words = 1851, !.narrative.content = Text("word", 1851),
        !.narrative.concepts_integrated = Items(2),
        !.academic_text.words = 0, !.academic_text.content = Text("tag", 1),
        !.video_script.words = 949,
        !.video_script.content = Text("[NARRACIÓN]", 1) \o Text("word", 948),
        !.video_script.visuals_count = 1]

\* what the templates give when there is no API client, or when the API
\* answer cannot be used: short texts, and for the video script the sections
\* "INTRO", "DESARROLLO", "CIERRE", a list of strings
TemplateProfile ==
    [ConformantProfile EXCEPT
        !.narrative.words = 270, !.narrative.content = Text("word", 270),
        !.academic_text.words = 277,
        !.academic_text.content = Text("##", 1) \o Text("word", 276),
        !.video_script.words = 284,
        !.video_script.content = Text("[NARRACIÓN]", 1) \o Text("word", 282)
                                 \o Text("[VISUAL]", 1),
        !.video_script.examples_count = 3, !.video_script.visuals_count = 8,
        !.video_script.sections = <<"str", "str", "str">>,
        !.activity.success_criteria = Items(5)]

\* the answers of the API (sections are dictionaries, none by default)
GenProfiles == {ConformantProfile, DeviantProfile}

\* everything _generate_theme may hand to the model constructors
GeneratorOutputs == GenProfiles \cup {TemplateProfile}

\* the pydantic constructors of the elements and of the theme accept the
\* values: VideoScript.sections is a List[Dict[str, Any]], and the counts
\* are inside the declared ranges
model_accepts(g) ==
    /\ \A i \in 1..Len(g.video_script.sections) :
          g.video_script.sections[i] = "dict"
    /\ g.video_script.concepts_count <= 3
    /\ g.video_script.examples_count >= 2
    /\ g.academic_text.concepts_count \in 4..5
    /\ g.infographic.sections_count \in 4..6
    /\ Len(g.concepts) = 5

NoProfile == [narrative |-> None]
NoSummary == [total_elements |-> 0 - 1]

\* the theme of unit u at position t with the elements of profile g
ThemeAt(g, u, t) == [g EXCEPT !.code = <<Num(u), ".", Num(t)>>]

\* a unit as _generate_unit builds it
UnitAt(u, themes) ==
    [unit_number |-> u, themes |-> themes, synthesis |-> Chars(3),
     integrated_project |-> Chars(3), none |-> {}]

\* the course _phase_generate_structure builds from the catalogue
CourseOf(g) ==
    [units |-> [u \in 1..UNITS_COUNT |->
        UnitAt(u, [t \in 1..THEMES_PER_UNIT |-> ThemeAt(g, u, t)])]]

\* what _phase_validate keeps of validate_course's result: the counts and the
\* lengths of the two message lists it logs
Summary(issues) ==
    [errors |-> Len(issues.errors), warnings |-> Len(issues.warnings),
     total_elements |-> issues.total_elements,
     valid_elements |-> issues.valid_elements,
     invalid_elements |-> issues.invalid_elements]

\* the elements of the tree's themes after validate_course went through them
words_after_validation(g, issues) ==
    [issues.walked.units[1].themes[1] EXCEPT !.code = g.code]

----------------------------------------------------------------------------
(* MCUAltea150CourseCreator                                                 *)

PhaseNames == <<"setup", "generate", "validate", "insert", "report">>

\* run() as it would be if a failed phase did not end it
run_next_ignoring_failure(i, ok) ==
    IF i < Len(PhaseNames) THEN PhaseNames[i + 1] ELSE "done"

\* run() as it would be if a failed phase were followed by the reports
run_next_reporting_failure(i, ok) ==
    IF i < Len(PhaseNames) THEN (IF ok THEN PhaseNames[i + 1] ELSE "report")
    ELSE "done"

\* MCUAltea150CourseCreator.run: where run() goes when phase number i has
\* returned ok: the next phase, or "done" (return False / return True)
run_next(i, ok) ==
    IF ~ok THEN "done"
    ELSE IF i < Len(PhaseNames) THEN PhaseNames[i + 1] ELSE "done"

\* ... and what run() has returned by then
run_returns(i, ok) ==
    IF ~ok THEN "False"
    ELSE IF i < Len(PhaseNames) THEN "none" ELSE "True"

Idle == [stage |-> "idle", u |-> 0, t |-> 0, k |-> 0, order |-> 0]

\* the loop "for unit in self.course.units" after unit u
AfterUnit(u) ==
    IF u < UNITS_COUNT
    THEN [stage |-> "unit", u |-> u + 1, t |-> 0, k |-> 0, order |-> 0]
    ELSE [stage |-> "return", u |-> 0, t |-> 0, k |-> 0, order |-> 0]

\* the loop "for theme in unit.themes" after theme t of unit u
AfterLesson(u, t) ==
    IF t < THEMES_PER_UNIT
    THEN [stage |-> "lesson", u |-> u, t |-> t + 1, k |-> 0, order |-> 0]
    ELSE AfterUnit(u)

\* "if theme.narrative:", "if theme.concepts:", ...: a model instance is
\* truthy, the concept list is truthy when it is not empty
block_present(g, k) == IF k = 2 THEN Len(g.concepts) > 0 ELSE TRUE

\* _phase_insert line 430: "if not course_id" after create_course
course_created(course_id) == course_id # None

\* _phase_insert lines 448-452: the id stored on the unit
unit_id_stored(unit_id) == unit_id

\* the unit loop as it would be with "break" in place of "continue"
unit_loop_next_break(u, unit_id) ==
    IF unit_id = None
    THEN [stage |-> "return", u |-> 0, t |-> 0, k |-> 0, order |-> 0]
    ELSE [stage |-> "lesson", u |-> u, t |-> 1, k |-> 0, order |-> 0]

\* _phase_insert lines 448-457: after create_unit returned unit_id for unit
\* u, "continue" with the next unit or enter the loop over its themes
unit_loop_next(u, unit_id) ==
    IF unit_id = None THEN AfterUnit(u)
    ELSE [stage |-> "lesson", u |-> u, t |-> 1, k |-> 0, order |-> 0]

\* the theme loop as it would be without its "continue"
lesson_loop_next_regardless(u, t, lesson_id) ==
    [stage |-> "content", u |-> u, t |-> t, k |-> 0, order |-> 0]

\* _phase_insert lines 465-474: after create_lesson returned lesson_id,
\* "continue" with the next theme or insert the content of this one
lesson_loop_next(u, t, lesson_id) ==
    IF lesson_id = None THEN AfterLesson(u, t)
    ELSE [stage |-> "content", u |-> u, t |-> t, k |-> 0, order |-> 0]

\* the phase as it would be if it were all-or-nothing
phase_insert_result_strict(rm) ==
    \A r \in DOMAIN rm : rm[r].calls = 0 \/ rm[r].id # None

\* the phase as it would be if it failed when no unit was created
phase_insert_result_units(rm) ==
    \E u \in Units : rm[UnitRes(u)].id # None

\* _phase_insert lines 476-477: what the phase returns once the loops are
\* over, whatever the remote resources rm have become
phase_insert_result(rm) == TRUE

\* _phase_insert lines 465-469: the id stored on the theme
lesson_id_stored(lesson_id) == lesson_id

\* the assignment as it would be if a failed insertion left a placeholder
element_id_stored_placeholder(k, old, block_id) ==
    IF k = 2 THEN old
    ELSE IF block_id = None THEN <<"pending">> ELSE block_id

\* _insert_theme_content: the rise_360_id left on the k-th element of the
\* theme after its insertion returned block_id (the concept list has none)
element_id_stored(k, old, block_id) == IF k = 2 THEN old ELSE block_id

\* per resource: the client calls made for it, the remote requests issued
\* for it and the identifier the last call returned
NoRemote == [calls |-> 0, requests |-> 0, id |-> None]

\* the remote resource after one client call for it
RemoteAfter(old, res) ==
    [calls |-> old.calls + 1, requests |-> old.requests + res.net,
     id |-> res.result]

\* unrequested -> requested -> (created | failed); a call is atomic, so
\* "requested" is never observed between two steps
ResourceState(rm) ==
    IF rm.calls = 0 THEN "unrequested"
    ELSE IF rm.id # None THEN "created" ELSE "failed"

\* the outcomes the environment may give to a call of a pipeline run: the
\* call succeeds or, in production and within the budget, its request raises
RunOutcomes == {"id", "error"}
CallOutcomes ==
    IF client.mode = "simulation" THEN {"id"}
    ELSE {o \in RunOutcomes : o = "id" \/ failures < MaxFailures}

Fail(outcome) == IF outcome = "id" THEN 0 ELSE 1

\* the creation of units is failing: the last call was a create_unit whose
\* request raised; while this lasts, the next create_unit may fail as well,
\* and the whole outage counts as one failure
UnitOutage ==
    client.mode = "production" /\ last.method = "create_unit" /\ last.failed
UnitOutcomes == CallOutcomes \cup {o \in RunOutcomes : UnitOutage}

Init ==
    /\ pc = "setup"
    /\ ip = Idle
    /\ client \in {NewClient(m) : m \in Modes}
    /\ now = MinClock
    /\ course_built = FALSE
    /\ gen = NoProfile
    /\ val = NoSummary
    /\ rid = [r \in Resources |-> None]
    /\ remote = [r \in Resources |-> NoRemote]
    /\ phases = << >>
    /\ run_result = "none"
    /\ failures = 0
    /\ window_start = NoWindow
    /\ issued = 0
    /\ last = NoCall

\* a phase has returned ok: record it and move run() on
PhaseReturns(i, ok) ==
    /\ phases' = Append(phases, [name |-> PhaseNames[i], ok |-> ok])
    /\ pc' = run_next(i, ok)
    /\ run_result' = run_returns(i, ok)

\* _phase_setup
PhaseSetup ==
    /\ pc = "setup"
    /\ \E outcome \in (IF client.mode = "simulation" THEN {"id"} ELSE Outcomes) :
         LET a == authenticate(client, outcome, <<"token">>)
         IN  /\ client' = a.client
             /\ issued' = issued + a.net
             /\ PhaseReturns(1, a.ok)
    /\ UNCHANGED <<ip, now, course_built, gen, val, rid, remote, failures,
                   window_start, last>>

\* _phase_generate_structure: the tree is built from the catalogue, or a
\* model constructor or the generator raises and self.course stays None
PhaseGenerateStructure ==
    /\ pc = "generate"
    /\ \E g \in GeneratorOutputs :
         IF model_accepts(g)
         THEN /\ course_built' = TRUE
              /\ gen' = g
              /\ PhaseReturns(2, TRUE)
         ELSE /\ UNCHANGED <<course_built, gen>>
              /\ PhaseReturns(2, FALSE)
    /\ UNCHANGED <<ip, client, now, val, rid, remote, failures, window_start,
                   issued, last>>

\* the phase as it would be if invalid elements made it fail
phase_validate_result_strict(built, summary) ==
    built /\ summary.invalid_elements = 0

\* _phase_validate: what it returns for a validation summary
phase_validate_result(built, summary) == built

\* _phase_validate
PhaseValidate ==
    /\ pc = "validate"
    /\ IF ~course_built
       THEN /\ UNCHANGED <<val, gen>>
            /\ PhaseReturns(3, FALSE)
       ELSE LET issues == validate_course(CourseOf(gen))
                summary == Summary(issues)
            IN  /\ val' = summary
                /\ gen' = words_after_validation(gen, issues)
                /\ PhaseReturns(3, phase_validate_result(course_built, summary))
    /\ UNCHANGED <<ip, client, now, course_built, rid, remote, failures,
                   window_start, issued, last>>

\* bookkeeping common to every client call of the Insert phase
Called(r, method, parent, res, outcome) ==
    /\ SetWorld(WorldAfter(World, method, parent, res, CallSeconds))
    /\ remote' = [remote EXCEPT ![r] = RemoteAfter(@, res)]
    /\ failures' = failures + (IF client.mode = "simulation" \/ UnitOutage
                               THEN 0 ELSE Fail(outcome))

\* _phase_insert, lines 418-436: create the course
InsertCreateCourse ==
    /\ pc = "insert"
    /\ ip.stage = "idle"
    /\ IF ~course_built
       THEN /\ PhaseReturns(4, FALSE)
            /\ UNCHANGED <<ip, client, now, rid, remote, failures,
                           window_start, issued, last>>
       ELSE \E outcome \in CallOutcomes :
            LET res == create_course(client, now, outcome, ServerId(CourseRes))
            IN  /\ Called(CourseRes, "create_course", None, res, outcome)
                /\ IF course_created(res.result)
                   THEN /\ rid' = [rid EXCEPT ![CourseRes] = res.result]
                        /\ ip' = [stage |-> "unit", u |-> 1, t |-> 0, k |-> 0,
                                  order |-> 0]
                        /\ UNCHANGED <<pc, phases, run_result>>
                   ELSE /\ PhaseReturns(4, FALSE)
                        /\ UNCHANGED <<rid, ip>>
    /\ UNCHANGED <<course_built, gen, val>>

\* _phase_insert, lines 440-454: create the next unit
InsertCreateUnit ==
    /\ pc = "insert"
    /\ ip.stage = "unit"
    /\ \E outcome \in UnitOutcomes :
         LET r == UnitRes(ip.u)
             res == create_unit(client, now, rid[CourseRes], ip.u, outcome,
                                ServerId(r))
         IN  /\ Called(r, "create_unit", rid[CourseRes], res, outcome)
             /\ ip' = unit_loop_next(ip.u, res.result)
             /\ IF res.result = None
                THEN UNCHANGED rid
                ELSE rid' = [rid EXCEPT ![r] = unit_id_stored(res.result)]
    /\ UNCHANGED <<pc, course_built, gen, val, phases, run_result>>

\* _phase_insert, lines 457-470: create the next lesson of the unit
InsertCreateLesson ==
    /\ pc = "insert"
    /\ ip.stage = "lesson"
    /\ \E outcome \in CallOutcomes :
         LET r == LessonRes(ip.u, ip.t)
             unit_id == rid[UnitRes(ip.u)]
             res == create_lesson(client, now, unit_id, ip.t, outcome, ServerId(r))
         IN  /\ Called(r, "create_lesson", unit_id, res, outcome)
             /\ ip' = lesson_loop_next(ip.u, ip.t, res.result)
             /\ IF res.result = None
                THEN UNCHANGED rid
                ELSE rid' = [rid EXCEPT ![r] = lesson_id_stored(res.result)]
    /\ UNCHANGED <<pc, course_built, gen, val, phases, run_result>>

\* _insert_theme_content, its k-th block: st holds the world, the stored ids,
\* the remote resources and the local variable order; outcome is the outcome
\* of the request
insert_theme_block(st, g, u, t, k, outcome) ==
    IF ~block_present(g, k) THEN st
    ELSE LET r == BlockRes(u, t, k)
             lesson_id == st.rid[LessonRes(u, t)]
             res == insert_block(BlockMethod(k), st.w.client, st.w.now,
                                 lesson_id, st.order, outcome, ServerId(r))
         IN  [w |-> WorldAfter(st.w, BlockMethod(k), lesson_id, res, CallSeconds),
              rid |-> [st.rid EXCEPT ![r] = element_id_stored(k, @, res.result)],
              remote |-> [st.remote EXCEPT ![r] = RemoteAfter(@, res)],
              \* "order += 1" follows every insertion but the last
              order |-> IF k < BlocksPerTheme THEN st.order + 1 ELSE st.order]

NumFailed(outs) == Cardinality({k \in DOMAIN outs : outs[k] # "id"})

\* _phase_insert line 474 and _insert_theme_content: insert the six blocks
\* of the lesson just created, one after the other
InsertThemeContent ==
    /\ pc = "insert"
    /\ ip.stage = "content"
    /\ \E outs \in [Orders -> CallOutcomes] :
         /\ client.mode = "production" => failures + NumFailed(outs) <= MaxFailures
         /\ \E s1 \in {insert_theme_block([w |-> World, rid |-> rid,
                                           remote |-> remote, order |-> 1],
                                          gen, ip.u, ip.t, 1, outs[1])} :
            \E s2 \in {insert_theme_block(s1, gen, ip.u, ip.t, 2, outs[2])} :
            \E s3 \in {insert_theme_block(s2, gen, ip.u, ip.t, 3, outs[3])} :
            \E s4 \in {insert_theme_block(s3, gen, ip.u, ip.t, 4, outs[4])} :
            \E s5 \in {insert_theme_block(s4, gen, ip.u, ip.t, 5, outs[5])} :
            \E s6 \in {insert_theme_block(s5, gen, ip.u, ip.t, 6, outs[6])} :
                /\ SetWorld(s6.w)
                /\ rid' = s6.rid
                /\ remote' = s6.remote
                /\ failures' = failures + NumFailed(outs)
    /\ ip' = AfterLesson(ip.u, ip.t)
    /\ UNCHANGED <<pc, course_built, gen, val, phases, run_result>>

\* _phase_insert, lines 476-477: the loops are over, return True
InsertReturn ==
    /\ pc = "insert"
    /\ ip.stage = "return"
    /\ ip' = Idle
    /\ PhaseReturns(4, phase_insert_result(remote))
    /\ UNCHANGED <<client, now, course_built, gen, val, rid, remote, failures,
                   window_start, issued, last>>

\* _phase_generate_reports: the three reports are written, or writing one
\* of them raises
PhaseGenerateReports ==
    /\ pc = "report"
    /\ \E ok \in BOOLEAN : PhaseReturns(5, ok)
    /\ UNCHANGED <<ip, client, now, course_built, gen, val, rid, remote,
                   failures, window_start, issued, last>>

Next ==
    \/ PhaseSetup
    \/ PhaseGenerateStructure
    \/ PhaseValidate
    \/ InsertCreateCourse
    \/ InsertCreateUnit
    \/ InsertCreateLesson
    \/ InsertThemeContent
    \/ InsertReturn
    \/ PhaseGenerateReports

Spec == Init /\ [][Next]_vars

\* a run is one thread that keeps running until run() returns
FairSpec == Spec /\ WF_vars(Next)

----------------------------------------------------------------------------
(* A Rise360Client driven by arbitrary calls                                *)

\* identifiers passed as course_id, unit_id or lesson_id
ArgIds == {None, <<"p_", "7">>}
\* numbers passed as unit_number, theme_number or order
ArgNumbers == {1, 2}
\* the identifier or token in a response
ResponseId == <<"srv_", "x">>

BlockMethods == {"insert_text_block", "insert_image_block",
                 "insert_video_block", "insert_interaction_block"}

\* a client on its own: there is no orchestrator and no course tree
InitClient ==
    /\ pc = "client"
    /\ ip = Idle
    /\ client \in {NewClient(m) : m \in Modes}
    /\ now = MinClock
    /\ course_built = FALSE
    /\ gen = NoProfile
    /\ val = NoSummary
    /\ rid = << >>
    /\ remote = << >>
    /\ phases = << >>
    /\ run_result = "none"
    /\ failures = 0
    /\ window_start = NoWindow
    /\ issued = 0
    /\ last = NoCall

\* the call returned res; the wall clock has moved by the sleep of the call
\* and by whatever happened to the clock until the next call
ClientCalled(method, parent, res) ==
    /\ pc = "client"
    /\ \E dt \in ClockSteps :
         /\ now + res.sleep + dt \in MinClock..MaxClock
         /\ SetWorld(WorldAfter(World, method, parent, res, dt))
    /\ UNCHANGED <<pc, ip, course_built, gen, val, rid, remote, phases,
                   run_result, failures>>

\* the response matters in production only, the numbers passed (they go
\* into the fabricated identifier) in simulation only
ModeOutcomes == IF client.mode = "simulation" THEN {"id"} ELSE Outcomes
ModeNumbers == IF client.mode = "simulation" THEN ArgNumbers ELSE {1}

ClientAuthenticate ==
    \E outcome \in ModeOutcomes :
        LET a == authenticate(client, outcome, ResponseId)
        IN  ClientCalled("authenticate", None,
                [client |-> a.client,
                 result |-> IF a.ok THEN <<"True">> ELSE <<"False">>,
                 sleep |-> 0, hit |-> FALSE, net |-> a.net,
                 failed |-> a.failed, raised |-> FALSE])

ClientCreateCourse ==
    \E outcome \in ModeOutcomes :
        ClientCalled("create_course", None,
                     create_course(client, now, outcome, ResponseId))

ClientCreateUnit ==
    \E outcome \in ModeOutcomes, course_id \in ArgIds, n \in ModeNumbers :
        ClientCalled("create_unit", course_id,
                     create_unit(client, now, course_id, n, outcome, ResponseId))

ClientCreateLesson ==
    \E outcome \in ModeOutcomes, unit_id \in ArgIds, n \in ModeNumbers :
        ClientCalled("create_lesson", unit_id,
                     create_lesson(client, now, unit_id, n, outcome, ResponseId))

ClientInsertBlock ==
    \E outcome \in ModeOutcomes, lesson_id \in ArgIds, n \in ModeNumbers,
       method \in BlockMethods :
        ClientCalled(method, lesson_id,
                     insert_block(method, client, now, lesson_id, n, outcome,
                                  ResponseId))

ClientPublishCourse ==
    \E outcome \in ModeOutcomes :
        ClientCalled("publish_course", None,
                     publish_course(client, now, outcome))

NextClient ==
    \/ ClientAuthenticate
    \/ ClientCreateCourse
    \/ ClientCreateUnit
    \/ ClientCreateLesson
    \/ ClientInsertBlock
    \/ ClientPublishCourse

SpecClient == InitClient /\ [][NextClient]_vars

----------------------------------------------------------------------------
(* A ContentValidator applied to one element, or to one course tree         *)

\* longest course and longest unit handed to validate_course
MaxUnits == 6
MaxThemes == 4
\* most markup tags in a content
MaxTags == 2

\* the theme code every single element is validated for
ThemeCode == <<"1.1">>

\* words as the generator leaves it: ContentGenerator.count_words of the content
generated(el) == [el EXCEPT !.words = count_words(el.content)]
\* words as the model's default leaves it: None
unset(el) == [el EXCEPT !.words = 0, !.none = @ \cup {"words"}]
\* the element with field f holding None
without(el, f) == [el EXCEPT !.none = @ \cup {f}]

\* around the target, at and past the tolerance
WordCounts(target, tolerance) ==
    {0, target - tolerance - 1, target - tolerance, target,
     target + tolerance, target + tolerance + 1}

\* a content of n plain words, `tags` markup tags and the marks in `marks`
RECURSIVE Marks(_)
Marks(marks) ==
    IF marks = << >> THEN << >> ELSE Text(marks[1], 1) \o Marks(Tail(marks))
Content(n, tags, marks) ==
    (IF tags > 0 THEN Text("tag", tags) ELSE << >>)
    \o Marks(marks)
    \o (IF n - Len(marks) > 0 THEN Text("word", n - Len(marks)) ELSE << >>)

\* every way the text of an element is written: counted by the generator or
\* left uncounted, with and without markup tags
Written(el, target, tolerance, marks) ==
    UNION {{generated([el EXCEPT !.content = Content(n, tags, marks)]),
            unset([el EXCEPT !.content = Content(n, tags, marks)])} :
           n \in WordCounts(target, tolerance), tags \in 0..MaxTags}

\* one field changed at a time, or holding None
NarrativeInputs ==
    LET n == ConformantProfile.narrative
    IN  Written(n, NARRATIVE_WORDS_TARGET, NARRATIVE_TOLERANCE, << >>)
        \cup {[n EXCEPT !.character = Chars(c)] : c \in {0, 2, 3}}
        \cup {[n EXCEPT !.concepts_integrated = Items(c)] : c \in {0, 2, 3}}
        \cup {[n EXCEPT !.structure = "5-act"]}
        \cup {without(n, f) : f \in {"content", "structure", "character",
                                     "concepts_integrated"}}
        \cup {without(unset(n), "content")}

ConceptsInputs ==
    LET c == ConformantProfile.concepts
        holder(list) == [concepts |-> list, none |-> {}]
    IN  {holder([i \in 1..n |-> AConcept]) : n \in 0..6}
        \cup {holder([c EXCEPT ![2] = [AConcept EXCEPT !.term = Chars(t)]]) :
              t \in {0, 2}}
        \cup {holder([c EXCEPT ![2] = [AConcept EXCEPT !.definition = Chars(d)]]) :
              d \in {0, 9, 10}}
        \cup {holder([c EXCEPT ![2] = without(AConcept, f)]) :
              f \in {"term", "definition"}}
        \cup {without(holder(c), "concepts")}

AcademicTextInputs ==
    LET a == ConformantProfile.academic_text
    IN  Written(a, ACADEMIC_WORDS_TARGET, ACADEMIC_TOLERANCE, <<"##">>)
        \cup Written(a, ACADEMIC_WORDS_TARGET, ACADEMIC_TOLERANCE, << >>)
        \cup {[a EXCEPT !.concepts_count = c] : c \in {3, 4}}
        \cup {[a EXCEPT !.references = Items(r)] : r \in {0, 2}}
        \cup {without(a, f) : f \in {"content", "concepts_count", "references"}}

InfographicInputs ==
    LET g == ConformantProfile.infographic
    IN  {[g EXCEPT !.width_px = w, !.height_px = h] :
            w \in {INFOGRAPHIC_WIDTH - 1, INFOGRAPHIC_WIDTH},
            h \in {INFOGRAPHIC_HEIGHT - 1, INFOGRAPHIC_HEIGHT}}
        \cup {[g EXCEPT !.sections_count = s] : s \in 3..7}
        \cup {[g EXCEPT !.elements = Items(e)] : e \in {0, 4}}
        \cup {without(g, f) : f \in {"width_px", "height_px", "sections_count",
                                     "elements"}}

VideoScriptInputs ==
    LET v == ConformantProfile.video_script
    IN  UNION {Written(v, VIDEO_SCRIPT_WORDS_TARGET, VIDEO_SCRIPT_TOLERANCE, m) :
               m \in {<<"[NARRACIÓN]", "[VISUAL]">>, <<"[NARRACIÓN]">>,
                      <<"[VISUAL]">>, << >>}}
        \cup {[v EXCEPT !.concepts_count = c] : c \in {3, 4}}
        \cup {[v EXCEPT !.visuals_count = c] : c \in {1, 2}}
        \cup {[v EXCEPT !.examples_count = c] : c \in {1, 2}}
        \cup {[v EXCEPT !.duration_minutes = 6]}
        \cup {without(v, f) : f \in {"content", "duration_minutes",
                                     "concepts_count", "examples_count",
                                     "visuals_count"}}

ActivityInputs ==
    LET a == ConformantProfile.activity
    IN  {[a EXCEPT !.duration_minutes = d, !.rubric_criteria = r] :
            d \in {45, 60}, r \in {3, 4}}
        \cup {[a EXCEPT !.components = Items(c)] : c \in {2, 3}}
        \cup {[a EXCEPT !.deliverables = Items(d)] : d \in {0, 1}}
        \cup {[a EXCEPT !.success_criteria = Items(c)] : c \in {2, 3}}
        \cup {without(a, f) : f \in {"duration_minutes", "components",
                                     "rubric_criteria", "deliverables",
                                     "success_criteria"}}

\* themes a tree is made of: as specified, off the specification, with four
\* concepts, with warnings only, with uncounted marked-up text, and with a
\* list field holding None
ThemePool ==
    LET c == ConformantProfile
    IN  {c, DeviantProfile,
         [c EXCEPT !.concepts = [i \in 1..4 |-> AConcept]],
         [c EXCEPT !.narrative.structure = "5-act",
                   !.activity.components = Items(2)],
         [c EXCEPT !.narrative =
             unset([@ EXCEPT !.content =
                        Content(NARRATIVE_WORDS_TARGET, 1, << >>)])],
         [c EXCEPT !.activity = without(@, "deliverables")]}

\* the theme whose elements named in `off` are off the specification, each
\* in its own way, and whose other elements conform
ThemeWithInvalid(off) ==
    LET c == ConformantProfile
    IN  [c EXCEPT
          !.narrative = IF 1 \in off THEN [@ EXCEPT !.character = Chars(2)]
                        ELSE @,
          !.concepts = IF 2 \in off THEN [i \in 1..4 |-> AConcept] ELSE @,
          !.academic_text = IF 3 \in off THEN [@ EXCEPT !.concepts_count = 3]
                            ELSE @,
          !.infographic = IF 4 \in off THEN [@ EXCEPT !.sections_count = 7]
                          ELSE @,
          !.video_script = IF 5 \in off THEN [@ EXCEPT !.visuals_count = 1]
                           ELSE @,
          !.activity = IF 6 \in off THEN [@ EXCEPT !.rubric_criteria = 3]
                       ELSE @]

ThemeInputs == ThemePool \cup {ThemeWithInvalid(off) : off \in SUBSET (1..6)}

\* a course of n units of THEMES_PER_UNIT conformant themes, but for unit p:
\* it has m themes, theme q of them is `special`, and it may lack a synthesis
CourseWith(n, p, m, q, special, synthesis) ==
    [units |-> [u \in 1..n |->
        IF u = p
        THEN [UnitAt(u, [t \in 1..m |->
                ThemeAt(IF t = q THEN special ELSE ConformantProfile, u, t)])
              EXCEPT !.synthesis = IF synthesis THEN @ ELSE << >>]
        ELSE UnitAt(u, [t \in 1..THEMES_PER_UNIT |->
                ThemeAt(ConformantProfile, u, t)])]]

CourseInputs ==
    {CourseWith(n, p, m, q, special, synthesis) :
        n \in 0..MaxUnits, p \in 1..MaxUnits, m \in 0..MaxThemes,
        q \in 1..MaxThemes, special \in ThemePool, synthesis \in BOOLEAN}

\* what is handed to the validator
Input(kind, element) == [kind |-> kind, element |-> element]

ValidatorInputs ==
    {Input("narrative", e) : e \in NarrativeInputs}
    \cup {Input("concepts", e) : e \in ConceptsInputs}
    \cup {Input("academic_text", e) : e \in AcademicTextInputs}
    \cup {Input("infographic", e) : e \in InfographicInputs}
    \cup {Input("video_script", e) : e \in VideoScriptInputs}
    \cup {Input("activity", e) : e \in ActivityInputs}
    \cup {Input("theme", ThemeAt(e, 1, 1)) : e \in ThemeInputs}
    \cup {Input("course", e) : e \in CourseInputs}

\* a validator on its own: gen is the element or tree as it is handed in,
\* val what the validator returned, with the element or tree as it left it
InitValidator ==
    /\ pc = "validator"
    /\ ip = Idle
    /\ client = NewClient("simulation")
    /\ now = MinClock
    /\ course_built = FALSE
    /\ gen \in ValidatorInputs
    /\ val = NoSummary
    /\ rid = << >>
    /\ remote = << >>
    /\ phases = << >>
    /\ run_result = "none"
    /\ failures = 0
    /\ window_start = NoWindow
    /\ issued = 0
    /\ last = NoCall

Validated(kind, result) ==
    /\ pc = "validator"
    /\ gen.kind = kind
    /\ val = NoSummary
    /\ val' = result
    /\ UNCHANGED <<pc, ip, client, now, course_built, gen, rid, remote, phases,
                   run_result, failures, window_start, issued, last>>

ValidateNarrative ==
    Validated("narrative", validate_narrative(gen.element, ThemeCode))
ValidateConcepts ==
    Validated("concepts", validate_concepts(gen.element, ThemeCode))
ValidateAcademicText ==
    Validated("academic_text", validate_academic_text(gen.element, ThemeCode))
ValidateInfographic ==
    Validated("infographic", validate_infographic(gen.element, ThemeCode))
ValidateVideoScript ==
    Validated("video_script", validate_video_script(gen.element, ThemeCode))
ValidateActivity ==
    Validated("activity", validate_activity(gen.element, ThemeCode))
ValidateTheme ==
    Validated("theme", validate_theme(gen.element))
ValidateCourse ==
    Validated("course", validate_course(gen.element))

NextValidator ==
    \/ ValidateNarrative
    \/ ValidateConcepts
    \/ ValidateAcademicText
    \/ ValidateInfographic
    \/ ValidateVideoScript
    \/ ValidateActivity
    \/ ValidateTheme
    \/ ValidateCourse

SpecValidator == InitValidator /\ [][NextValidator]_vars

----------------------------------------------------------------------------
(* Properties                                                               *)

Returned == Len(phases)
Failed(r) == ResourceState(remote[r]) = "failed"
Created(r) == ResourceState(remote[r]) = "created"
SomePhaseFailed == \E i \in 1..Returned : ~phases[i].ok
EarlierPhaseFailed == \E i \in 1..Returned : i <= 4 /\ ~phases[i].ok
ReportExecuted == \E i \in 1..Returned : phases[i].name = "report"

\* C1: run executes the phases in the order setup, generate, validate,
\* insert, report; a phase is running or has returned only if every earlier
\* phase returned success; once a phase has returned failure no later phase
\* is started and run has returned False; run returns True only after all
\* five phases returned success.
C1_PhaseOrder ==
    /\ Returned <= Len(PhaseNames)
    /\ \A i \in 1..Returned : phases[i].name = PhaseNames[i]
    /\ \A i \in 1..Returned : i < Returned => phases[i].ok
    /\ pc # "done" => /\ ~SomePhaseFailed
                      /\ Returned < Len(PhaseNames)
                      /\ pc = PhaseNames[Returned + 1]
                      /\ run_result = "none"
    /\ SomePhaseFailed => pc = "done" /\ run_result = "False"
    /\ pc = "done" => run_result \in {"True", "False"}
    /\ run_result = "True" => Returned = 5 /\ ~SomePhaseFailed

\* the Insert phase returned failure, no report phase followed
C1_Witness ==
    /\ pc = "done"
    /\ Returned = 4
    /\ ~phases[4].ok
    /\ run_result = "False"

\* C2, as stated: in a run whose authentication succeeded, no failed
\* resource creation (course, unit, lesson or block) makes the Insert phase
\* return failure.
C2_Original ==
    (Returned >= 4 /\ phases[1].ok /\ \E r \in Resources : Failed(r))
        => phases[4].ok

\* C2, amended: in a run whose authentication succeeded, a failed unit,
\* lesson or block creation does not make the Insert phase return failure;
\* a failed course creation makes the Insert phase and the run return
\* failure.
C2_Amended ==
    (Returned >= 4 /\ phases[1].ok) =>
        /\ (\E r \in Resources \ {CourseRes} : Failed(r)) => phases[4].ok
        /\ Failed(CourseRes) => ~phases[4].ok /\ run_result = "False"

\* a unit, lesson or block failed and the Insert phase returned success
C2_Witness ==
    /\ Returned >= 4
    /\ phases[4].ok
    /\ \E r \in Resources \ {CourseRes} : Failed(r)

\* C3: once the Insert phase has walked the tree of a created course, a
\* creation call was made for every unit; for every created unit, for each
\* of its themes; for every created lesson, for each of its six blocks.
C3_BestEffort ==
    (Returned >= 4 /\ phases[4].ok) =>
        /\ \A u \in Units : remote[UnitRes(u)].calls >= 1
        /\ \A u \in Units, t \in Themes :
             Created(UnitRes(u)) => remote[LessonRes(u, t)].calls >= 1
        /\ \A u \in Units, t \in Themes, k \in Orders :
             Created(LessonRes(u, t)) => remote[BlockRes(u, t, k)].calls >= 1

\* a unit failed and the walk went on: the next unit, its lessons and
\* their blocks were requested
C3_Witness ==
    /\ Returned >= 4
    /\ phases[4].ok
    /\ \E u \in Units :
         /\ u < UNITS_COUNT
         /\ Failed(UnitRes(u))
         /\ Created(UnitRes(u + 1))
         /\ \A t \in Themes, k \in Orders : Created(BlockRes(u + 1, t, k))

\* C4: whenever a course tree exists, the Validate phase returns success
\* whatever the validation summary, and the Insert phase is started next.
C4_ValidationNeverBlocks ==
    (Returned >= 3 /\ course_built) =>
        /\ phases[3].ok
        /\ pc = "insert" \/ Returned >= 4

\* validation found errors and invalid elements, and the Insert phase runs
C4_Witness ==
    /\ pc = "insert"
    /\ val # NoSummary
    /\ val.errors > 0
    /\ val.invalid_elements > 0

\* C5: a rise_360_id stored on the tree is the identifier the creation call
\* for that same resource returned; before the Insert phase, and after a
\* failed creation, it is None.
C5_RemoteIdFromCreation ==
    /\ \A r \in Resources :
         /\ rid[r] # None => remote[r].calls >= 1 /\ remote[r].id = rid[r]
         /\ Failed(r) => rid[r] = None
    /\ Returned < 3 => \A r \in Resources : rid[r] = None

\* one block of a lesson carries the id its insertion returned, another
\* block of the same lesson failed and carries none
C5_Witness ==
    \E u \in Units, t \in Themes, j \in Orders, k \in Orders :
        /\ rid[BlockRes(u, t, j)] # None
        /\ rid[BlockRes(u, t, j)] = remote[BlockRes(u, t, j)].id
        /\ Failed(BlockRes(u, t, k))
        /\ rid[BlockRes(u, t, k)] = None

SimulatedCreations ==
    {"create_unit", "create_lesson"} \cup BlockMethods

\* C6: in simulation mode create_unit, create_lesson and the four block
\* insertions issue no remote request and return a string that contains the
\* identifier of the parent they were given.
C6_SimulationIds ==
    (last.mode = "simulation" /\ last.method \in SimulatedCreations) =>
        /\ last.net = 0
        /\ last.result # None
        /\ Contains(last.result, Str(last.parent))

\* a simulated video block insertion under a given lesson id
C6_Witness ==
    /\ last.mode = "simulation"
    /\ last.method = "insert_video_block"
    /\ last.parent # None
    /\ last.net = 0
    /\ Contains(last.result, last.parent)

\* a call that checks the rate limit is being made with the ceiling reached
CeilingReached ==
    /\ client.mode = "production"
    /\ client.request_count >= RATE_LIMIT_REQUESTS_PER_MINUTE
    /\ last'.method # "authenticate"

\* C7, as stated: a production call made with the ceiling reached, less
\* than 60 seconds after the window began (at the first counted request or
\* at the last reset), sleeps for the rest of the minute, a positive
\* duration; the counter is then zero (plus the request of the call itself)
\* and the window starts at the time of the call.
C7_Original ==
    [][(CeilingReached /\ window_start # NoWindow
          /\ now - window_start < WindowSeconds)
        => /\ last'.sleep = WindowSeconds - (now - window_start)
           /\ last'.sleep > 0
           /\ client'.request_count <= 1
           /\ client'.rate_limit_reset = now]_vars

\* C8, as stated: no rate-limit sleep is negative or longer than 60 seconds,
\* whatever the clock reads.
C8_Original == last.sleep >= 0 /\ last.sleep <= WindowSeconds

\* C9: each client call issues at most one remote request, and within a
\* run at most one call is made for each course, unit, lesson and block: a
\* failed resource is not requested again.
C9_SingleAttempt ==
    /\ last.net <= 1
    /\ \A r \in Resources :
         /\ remote[r].calls <= 1
         /\ remote[r].requests <= remote[r].calls

\* the run is over, a resource failed after its one request
C9_Witness ==
    /\ pc = "done"
    /\ \E r \in Resources :
         /\ Failed(r)
         /\ remote[r].calls = 1
         /\ remote[r].requests = 1

----------------------------------------------------------------------------
(* ContentValidator                                                         *)

\* the validator has returned (or raised) for an input of this kind
ValidatedAs(kind) == pc = "validator" /\ gen.kind = kind /\ val # NoSummary

\* some message of the list holds this piece of text
Mentions(messages, piece) ==
    \E i \in 1..Len(messages) :
        \E j \in 1..Len(messages[i]) : messages[i][j] = piece

\* the element differs from base in its text (words, content) at most, its
\* words are set, and the marks the validator looks for are in the content
OnlyTextDiffers(el, base, marks) ==
    /\ el.none = {}
    /\ [el EXCEPT !.words = 0, !.content = << >>]
         = [base EXCEPT !.words = 0, !.content = << >>]
    /\ \A m \in marks : in_text(m, el.content)

\* valid exactly inside [target - tolerance, target + tolerance], and the
\* word-count error exactly outside
ToleranceVerdict(target, tolerance) ==
    LET inside == /\ gen.element.words >= target - tolerance
                  /\ gen.element.words <= target + tolerance
    IN  /\ ~val.raised
        /\ val.is_valid <=> inside
        /\ Mentions(val.errors, ": Word count ") <=> ~inside

\* C11: for narrative, academic text and video script with every other field
\* conforming, the element is valid when words is within the configured
\* tolerance of the configured target, bounds included (1750..1850,
\* 1850..1950, 900..1000), and invalid with a word-count error one word
\* beyond it.
C11_WordCountTolerance ==
    /\ (/\ ValidatedAs("narrative")
        /\ OnlyTextDiffers(gen.element, ConformantProfile.narrative, {}))
       => ToleranceVerdict(1800, 50)
    /\ (/\ ValidatedAs("academic_text")
        /\ OnlyTextDiffers(gen.element, ConformantProfile.academic_text, {}))
       => ToleranceVerdict(1900, 50)
    /\ (/\ ValidatedAs("video_script")
        /\ OnlyTextDiffers(gen.element, ConformantProfile.video_script,
                           {"[NARRACIÓN]", "[VISUAL]"}))
       => ToleranceVerdict(950, 50)

\* a video script of target + tolerance + 1 words was found invalid
C11_Witness ==
    /\ ValidatedAs("video_script")
    /\ OnlyTextDiffers(gen.element, ConformantProfile.video_script,
                       {"[NARRACIÓN]", "[VISUAL]"})
    /\ gen.element.words = VIDEO_SCRIPT_WORDS_TARGET + VIDEO_SCRIPT_TOLERANCE + 1
    /\ ~val.is_valid
    /\ Len(val.errors) = 1

\* some message of the list holds these pieces of text in a row
Reports(messages, pieces) ==
    \E i \in 1..Len(messages) : Contains(messages[i], pieces)

\* C12: a unit count other than 5, a theme count other than 3 and a concept
\* count other than 5 are each reported by validate_course as an error that
\* names the expected count, and a wrong concept count makes the concepts
\* element invalid.
C12_CardinalityErrors ==
    /\ (ValidatedAs("course") /\ ~val.raised) =>
         LET units == gen.element.units
         IN  /\ Len(units) # 5 =>
                   Reports(val.errors, <<"Expected ", "5", " units, got ",
                                         Num(Len(units))>>)
             /\ \A u \in 1..Len(units) :
                   /\ Len(units[u].themes) # 3 =>
                         Reports(val.errors,
                                 <<"Unit ", Num(u), ": Expected ", "3",
                                   " themes, got ", Num(Len(units[u].themes))>>)
                   /\ \A t \in 1..Len(units[u].themes) :
                         Len(units[u].themes[t].concepts) # 5 =>
                           /\ Reports(val.errors,
                                      <<"Concepts ", Num(u), ".", Num(t),
                                        ": Expected ", "5", ", got ">>)
                           /\ val.invalid_elements >= 1
    /\ (ValidatedAs("concepts") /\ ~val.raised
           /\ Len(gen.element.concepts) # 5) =>
         /\ ~val.is_valid
         /\ Reports(val.errors, <<"Concepts ", "1.1", ": Expected ", "5",
                                  ", got ", Num(Len(gen.element.concepts))>>)

\* a course of four units, one of them with a theme of four concepts, was
\* validated and both deviations are in the errors
C12_Witness ==
    /\ ValidatedAs("course")
    /\ ~val.raised
    /\ Len(gen.element.units) = 4
    /\ \E u \in 1..4 : \E t \in 1..Len(gen.element.units[u].themes) :
          Len(gen.element.units[u].themes[t].concepts) = 4
    /\ Reports(val.errors, <<"Expected ", "5", " units, got ", "4">>)
    /\ Reports(val.errors, <<": Expected ", "5", ", got ", "4">>)

\* the themes of a course, as <<unit, theme>> positions
ThemesOf(course) ==
    UNION {{<<u, t>> : t \in 1..Len(course.units[u].themes)} :
           u \in 1..Len(course.units)}

\* every message of `part` is in `whole`
Covers(whole, part) ==
    \A i \in 1..Len(part) : \E j \in 1..Len(whole) : whole[j] = part[i]

\* C13: whatever the number of units and of themes per unit, a validate_course
\* that returns has validated every unit and every theme present: six
\* elements are counted per theme, the errors of every theme are in the
\* result, and so is the warning of every unit without a synthesis.
C13_WalkNotAborted ==
    (ValidatedAs("course") /\ ~val.raised) =>
        LET course == gen.element
        IN  /\ val.valid_elements + val.invalid_elements
                  = 6 * Cardinality(ThemesOf(course))
            /\ \A p \in ThemesOf(course) :
                  Covers(val.errors,
                         validate_theme(course.units[p[1]].themes[p[2]]).errors)
            /\ \A u \in 1..Len(course.units) :
                  course.units[u].synthesis = << >> =>
                    Reports(val.warnings,
                            <<"Unit ", Num(u), ": Missing synthesis (300 words)">>)

\* a course of four units whose last unit has four themes was validated to
\* its last theme, which is off the specification
C13_Witness ==
    /\ ValidatedAs("course")
    /\ ~val.raised
    /\ Len(gen.element.units) = 4
    /\ Len(gen.element.units[4].themes) = 4
    /\ Reports(val.errors, <<"Expected ", "5", " units, got ", "4">>)
    /\ Reports(val.errors, <<"Unit ", "4", ": Expected ", "3", " themes, got ", "4">>)
    /\ Reports(val.errors, <<"Narrative ", "4", ".", "4", ": Word count ">>)
    /\ val.valid_elements + val.invalid_elements = 78

\* the elements of the theme their own validator finds invalid
InvalidAlone(theme) ==
    {k \in 1..6 : ~validate_element(theme, k).is_valid}

\* C14: a validate_theme that returns has run the six validators: every
\* element is counted once, as valid or as invalid (the two counts add up to
\* 6), and it is counted invalid exactly when its own validator, given this
\* element alone, finds it invalid, whatever the other five are.
C14_SixElementsIndependent ==
    (ValidatedAs("theme") /\ ~val.raised) =>
        /\ val.valid_elements + val.invalid_elements = 6
        /\ val.invalid_elements = Cardinality(InvalidAlone(gen.element))
        /\ \A k \in 1..6 :
              Covers(val.errors, validate_element(gen.element, k).errors)

\* a theme with invalid concepts, infographic and activity and three valid
\* elements
C14_Witness ==
    /\ ValidatedAs("theme")
    /\ ~val.raised
    /\ val.invalid_elements = 3
    /\ val.valid_elements = 3
    /\ InvalidAlone(gen.element) = {2, 4, 6}

\* the errors and the warnings of the six elements of a theme are in the result
ElementMessagesKept(theme) ==
    \A k \in 1..6 :
        LET result == validate_element(theme, k)
        IN  /\ Covers(val.errors, result.errors)
            /\ Covers(val.warnings, result.warnings)

\* C15: the errors and the warnings returned by validate_theme and by
\* validate_course hold every error and every warning that each element
\* validator returned for each theme: no element-level message is dropped.
C15_Original ==
    /\ (ValidatedAs("theme") /\ ~val.raised) => ElementMessagesKept(gen.element)
    /\ (ValidatedAs("course") /\ ~val.raised) =>
         \A p \in ThemesOf(gen.element) :
             ElementMessagesKept(gen.element.units[p[1]].themes[p[2]])

\* C16: no element validator ends with an exception: for every element handed
\* in, one with a field holding None or an empty field included, each of the
\* six validators returns its structured result.
C16_Original ==
    \A kind \in {"narrative", "concepts", "academic_text", "infographic",
                 "video_script", "activity"} :
        ValidatedAs(kind) => ~val.raised

\* words, when set and not zero, is the markup-stripped token count of content
WordsConsistent(el) ==
    (~IsNone(el, "words") /\ el.words # 0 /\ ~IsNone(el, "content")) =>
        el.words = count_words(el.content)

\* C18: for every narrative, academic text and video script, as the generator
\* hands it in and as a validator leaves it, words (when set and not zero)
\* equals the number of whitespace-delimited tokens of the content after the
\* markup tags are stripped.
C18_Original ==
    \A kind \in {"narrative", "academic_text", "video_script"} :
        (pc = "validator" /\ gen.kind = kind) =>
            /\ WordsConsistent(gen.element)
            /\ val # NoSummary => WordsConsistent(val.element)

\* the run of the pipeline is over
RunOver == pc = "done"

\* the concepts of all the themes of a course
ConceptsOf(course) ==
    UNION {{<<p, i>> : i \in 1..Len(course.units[p[1]].themes[p[2]].concepts)} :
           p \in ThemesOf(course)}

\* C17: when a run in simulation mode is over, the course has exactly 5 units,
\* 15 themes and 75 concepts, exactly 15 lesson creations returned an
\* identifier and exactly 90 block insertions returned an identifier.
C17_Original ==
    (client.mode = "simulation" /\ RunOver) =>
        /\ course_built
        /\ Len(CourseOf(gen).units) = 5
        /\ Cardinality(ThemesOf(CourseOf(gen))) = 15
        /\ Cardinality(ConceptsOf(CourseOf(gen))) = 75
        /\ Cardinality({r \in LessonResources : Created(r)}) = 15
        /\ Cardinality({r \in BlockResources : Created(r)}) = 90

\* C19: when authenticate has returned True the client holds a token that is
\* not None (the placeholder in simulation, the token of the login response in
\* production); when it has returned False the Setup phase has failed, the
\* run is over and no creation call has been issued.
C19_Original ==
    /\ (Returned >= 1 /\ phases[1].ok) => client.auth_token # None
    /\ (Returned >= 1 /\ ~phases[1].ok) =>
         /\ RunOver
         /\ run_result = "False"
         /\ \A r \in Resources : remote[r].calls = 0

\* the methods that return a boolean
BooleanMethods == {"authenticate", "publish_course"}

\* the methods that issue one remote call in production
RemoteMethods ==
    {"create_course", "create_unit", "create_lesson"} \cup BlockMethods
        \cup BooleanMethods

\* C20: in production no creation, insertion or publish method (nor
\* authenticate) lets an exception out; when its remote call failed the
\* method returned None, or False for publish_course and authenticate.
C20_FailuresBecomeReturns ==
    (last.mode = "production" /\ last.method \in RemoteMethods) =>
        /\ ~last.raised
        /\ last.failed =>
             last.result = (IF last.method \in BooleanMethods
                            THEN <<"False">> ELSE None)

\* the request of publish_course failed and the method returned False
C20_Witness ==
    /\ last.mode = "production"
    /\ last.method = "publish_course"
    /\ last.failed
    /\ last.net = 1
    /\ last.result = <<"False">>

\* C21: validate_activity reports an error exactly when rubric_criteria is
\* below 4 or there is no deliverable; a duration other than the configured
\* one, fewer than 3 components or fewer than 3 success criteria give
\* warnings only and leave is_valid true.
C21_Original ==
    (ValidatedAs("activity") /\ ~val.raised) =>
        LET a == gen.element
            required == a.rubric_criteria < 4 \/ Len(a.deliverables) < 1
        IN  /\ (val.errors # << >>) <=> required
            /\ val.is_valid <=> ~required

MarkerError == <<": Missing required [NARRACIÓN] or [VISUAL] markers">>

\* C22, as stated: validate_video_script reports the missing-marker error
\* exactly when both markers are absent from the content; a script holding
\* at least one of the two gets no missing-marker error.
C22_Original ==
    (ValidatedAs("video_script") /\ ~val.raised) =>
        (Reports(val.errors, MarkerError)
            <=> (/\ ~in_text("[NARRACIÓN]", gen.element.content)
                 /\ ~in_text("[VISUAL]", gen.element.content)))

\* C22, amended: validate_video_script reports the missing-marker error
\* exactly when at least one of the two markers is absent from the content;
\* only a script holding both markers gets no missing-marker error, and a
\* script with the error is invalid.
C22_Amended ==
    (ValidatedAs("video_script") /\ ~val.raised) =>
        /\ Reports(val.errors, MarkerError)
              <=> (\/ ~in_text("[NARRACIÓN]", gen.element.content)
                   \/ ~in_text("[VISUAL]", gen.element.content))
        /\ Reports(val.errors, MarkerError) => ~val.is_valid

\* a script with the narration marker and without the visual marker got the
\* missing-marker error
C22_Witness ==
    /\ ValidatedAs("video_script")
    /\ ~val.raised
    /\ in_text("[NARRACIÓN]", gen.element.content)
    /\ ~in_text("[VISUAL]", gen.element.content)
    /\ Reports(val.errors, MarkerError)

\* the elements of the theme whose own validator returns an error
WithErrors(theme) ==
    {k \in 1..6 : validate_element(theme, k).errors # << >>}

\* C23: for each of the six element validators is_valid is true exactly when
\* the errors list is empty, with or without warnings; validate_theme and
\* validate_course count an element invalid exactly when its validator
\* returned an error, so that warnings change no count.
C23_WarningsInformational ==
    /\ \A k \in 1..6 :
          (ValidatedAs(ElementKinds[k]) /\ ~val.raised) =>
              (val.is_valid <=> val.errors = << >>)
    /\ (ValidatedAs("theme") /\ ~val.raised) =>
          /\ val.invalid_elements = Cardinality(WithErrors(gen.element))
          /\ val.valid_elements = 6 - Cardinality(WithErrors(gen.element))
    /\ (ValidatedAs("course") /\ ~val.raised) =>
          LET themes == ThemesOf(gen.element)
              bad == {<<p, k>> \in themes \X (1..6) :
                        k \in WithErrors(gen.element.units[p[1]].themes[p[2]])}
          IN  /\ val.invalid_elements = Cardinality(bad)
              /\ val.valid_elements = 6 * Cardinality(themes) - Cardinality(bad)

\* a theme whose narrative and activity have a warning and no error: all six
\* elements are counted valid
C23_Witness ==
    /\ ValidatedAs("theme")
    /\ ~val.raised
    /\ validate_element(gen.element, 1).warnings # << >>
    /\ validate_element(gen.element, 6).warnings # << >>
    /\ val.valid_elements = 6
    /\ val.invalid_elements = 0

\* the generated content but for the words of the three texts
Frame(g) ==
    [g EXCEPT !.narrative.words = 0, !.narrative.none = @ \ {"words"},
              !.academic_text.words = 0, !.academic_text.none = @ \ {"words"},
              !.video_script.words = 0, !.video_script.none = @ \ {"words"}]

\* C24: once the structure is generated, no step of the Validate, Insert and
\* Report phases changes the tree but for words and the remote identifiers:
\* the course keeps its units, themes and concepts and every other field of
\* every element, and the tree stays built.
C24_TreeFrame ==
    [][(course_built /\ pc # "generate") =>
          /\ course_built'
          /\ Frame(gen') = Frame(gen)
          /\ CourseOf(Frame(gen')) = CourseOf(Frame(gen))]_vars

\* the run is over, the validator has set the words of an academic text the
\* generator had counted as zero, and its block has been inserted
C24_Witness ==
    /\ RunOver
    /\ course_built
    /\ count_words(gen.academic_text.content) = 0
    /\ gen.academic_text.words = 1
    /\ \A u \in Units, t \in Themes : rid[BlockRes(u, t, 3)] # None

\* C25: the result of validate_theme, of validate_unit and of validate_course
\* satisfies total_elements = valid_elements + invalid_elements.
C25_Original ==
    \A kind \in {"theme", "course"} :
        (ValidatedAs(kind) /\ ~val.raised) =>
            val.total_elements = val.valid_elements + val.invalid_elements

\* C26: in production the number of remote requests issued since the last
\* reset of the rate-limit counter never exceeds the ceiling, whatever the
\* calls and whether they succeed or fail.
C26_Original ==
    client.mode = "production" => issued <= RATE_LIMIT_REQUESTS_PER_MINUTE

\* C27: in every state of a client, whatever the calls made in production or
\* in simulation and their outcomes, request_count is between 0 and the
\* ceiling.
C27_CounterBounded ==
    /\ client.request_count >= 0
    /\ client.request_count <= RATE_LIMIT_REQUESTS_PER_MINUTE

\* the counter has been reset and is back at the ceiling after a counted
\* request
C27_Witness ==
    /\ client.mode = "production"
    /\ client.request_count = RATE_LIMIT_REQUESTS_PER_MINUTE
    /\ client.rate_limit_reset > 0
    /\ last.net = 1

Requested(r) == remote[r].calls >= 1

\* C28: insertion goes top-down: a unit is requested only under a created
\* course, a lesson only under a created unit, a block only under a created
\* lesson; so a content element carries a rise_360_id only if its theme does,
\* a theme only if its unit does, a unit only if the course does.
C28_TopDown ==
    /\ \A u \in Units :
          /\ Requested(UnitRes(u)) => Created(CourseRes)
          /\ rid[UnitRes(u)] # None => rid[CourseRes] # None
    /\ \A u \in Units, t \in Themes :
          /\ Requested(LessonRes(u, t)) => Created(UnitRes(u))
          /\ rid[LessonRes(u, t)] # None => rid[UnitRes(u)] # None
    /\ \A u \in Units, t \in Themes, k \in Orders :
          /\ Requested(BlockRes(u, t, k)) => Created(LessonRes(u, t))
          /\ rid[BlockRes(u, t, k)] # None => rid[LessonRes(u, t)] # None

\* the run is over; a lesson failed under a created unit and none of its
\* blocks was requested, while the blocks of the next lesson were inserted
C28_Witness ==
    /\ RunOver
    /\ \E u \in Units :
          /\ Created(UnitRes(u))
          /\ Failed(LessonRes(u, 1))
          /\ \A k \in Orders : ~Requested(BlockRes(u, 1, k))
          /\ rid[LessonRes(u, 2)] # None
          /\ rid[BlockRes(u, 2, 1)] # None

\* the string an identifier is: its pieces put together
RECURSIVE Flat(_)
Flat(id) == IF id = << >> THEN "" ELSE id[1] \o Flat(Tail(id))

\* the resources whose creation call returned an identifier
Identified == {r \in Resources : remote[r].id # None}

\* C29: in a simulation run the identifiers the client returned are pairwise
\* distinct strings, and once the Insert phase has returned success they are
\* the 111 identifiers of the course, the 5 units, the 15 lessons and the 90
\* blocks; the three text blocks of a lesson differ.
C29_DistinctIds ==
    client.mode = "simulation" =>
        /\ Cardinality({Flat(remote[r].id) : r \in Identified})
              = Cardinality(Identified)
        /\ (Returned >= 4 /\ phases[4].ok) =>
              Cardinality(Identified) = 1 + 5 + 15 + 90

\* the simulation run is over and the three text blocks of the last lesson
\* carry three identifiers
C29_Witness ==
    /\ client.mode = "simulation"
    /\ RunOver
    /\ Cardinality(Identified) = 111
    /\ Cardinality({Flat(remote[BlockRes(UNITS_COUNT, THEMES_PER_UNIT, k)].id) :
                      k \in 1..3}) = 3

\* C30: with a course tree, the Insert phase returns success exactly when
\* create_course returned an identifier: it returns success however many
\* units, lessons and blocks failed, all the units included, and it returns
\* failure with no unit, lesson or block requested when create_course
\* returned None.
C30_InsertIffCourse ==
    (Returned >= 4 /\ course_built) =>
        /\ Requested(CourseRes)
        /\ phases[4].ok <=> Created(CourseRes)
        /\ Failed(CourseRes) =>
              \A r \in Resources \ {CourseRes} : ~Requested(r)

\* the course was created, the creation of every unit failed, nothing was
\* requested below the units, and the Insert phase returned success
C30_Witness ==
    /\ Returned >= 4
    /\ phases[4].ok
    /\ Created(CourseRes)
    /\ \A u \in Units : Failed(UnitRes(u))
    /\ \A r \in LessonResources \cup BlockResources : ~Requested(r)

====
